---- MODULE Spec2Model ----
(***************************************************************************)
(* The prediction page of the FutureCoin site.  Two clients are modelled:  *)
(*   "script"  src/crypto-prediction-website-main/script.js, whose         *)
(*             generatePrediction awaits simulateAdvancedPrediction;       *)
(*   "api"     src/unnamed/part_000, whose generatePrediction POSTs to     *)
(*             /api/predict/{symbol}.                                      *)
(* The page has all the elements the handlers look up.  The HTML is not    *)
(* part of the sources: the inputs start at days-ahead "1" and hours-ahead *)
(* "0", the button starts enabled and the cards start hidden.              *)
(* Numbers are fixed point: a price is an integer count of 1/PriceScale,   *)
(* a Math.random() draw is k/RandDen with k in 0..RandDen-1, and a         *)
(* predicted price is kept as the pair (base, num) that stands for         *)
(* base/PriceScale * num/FactorDen, so that no product overflows.          *)
(* Decorations (styles, animations, the chart, the 24h change badge) are   *)
(* left out; they are written by the handlers and read by none.            *)
(***************************************************************************)
EXTENDS Integers, Sequences, FiniteSets, TLC

\* ------------------------------------------------------------------ bounds
MaxInv == 2       \* generatePrediction invocations in one behaviour
MaxEdits == 1     \* user edits (select change, input events) in one behaviour
RandDen == 100    \* resolution of Math.random(): a draw is k/RandDen, 0 <= k < RandDen

\* ------------------------------------------------------- JavaScript values
PriceDigits == 4
RECURSIVE Pow10(_)
Pow10(n) == IF n = 0 THEN 1 ELSE 10 * Pow10(n - 1)
PriceScale == Pow10(PriceDigits)

\* a JavaScript value that is a number, NaN or null
Num(v) == [t |-> "num", v |-> v]
NaN == [t |-> "NaN", v |-> 0]
Null == [t |-> "null", v |-> 0]
\* ToBoolean of such a value: null, NaN and 0 are falsy
Truthy(x) == x.t = "num" /\ x.v # 0
\* a || b
Or(a, b) == IF Truthy(a) THEN a ELSE b

\* the text of an input field is a sequence of one-character strings
DigitChars == <<"0", "1", "2", "3", "4", "5", "6", "7", "8", "9">>
IsDigit(c) == \E i \in 1..10 : DigitChars[i] = c
DigitVal(c) == (CHOOSE i \in 1..10 : DigitChars[i] = c) - 1

RECURSIVE DigitsPrefix(_)
DigitsPrefix(s) ==
    IF s = <<>> \/ ~IsDigit(Head(s)) THEN <<>>
    ELSE <<Head(s)>> \o DigitsPrefix(Tail(s))

RECURSIVE DigitsValue(_, _)
DigitsValue(s, acc) ==
    IF s = <<>> THEN acc ELSE DigitsValue(Tail(s), acc * 10 + DigitVal(Head(s)))

Signed(s) == s # <<>> /\ Head(s) \in {"-", "+"}
Unsigned(s) == IF Signed(s) THEN Tail(s) ELSE s
Negative(s) == s # <<>> /\ Head(s) = "-"

\* Number.parseInt(text): sign, then the longest run of digits; NaN without one
parseInt(s) ==
    LET ds == DigitsPrefix(Unsigned(s))
    IN  IF ds = <<>> THEN NaN
        ELSE Num(IF Negative(s) THEN 0 - DigitsValue(ds, 0) ELSE DigitsValue(ds, 0))

\* the first PriceDigits fraction digits, padded with zeros, as a count of 1/PriceScale
RECURSIVE FracValue(_, _, _)
FracValue(s, n, acc) ==
    IF n = 0 THEN acc
    ELSE IF s = <<>> THEN FracValue(s, n - 1, acc * 10)
    ELSE FracValue(Tail(s), n - 1, acc * 10 + DigitVal(Head(s)))

\* Number.parseFloat(text): sign, digits, optional "." and digits; NaN without a digit
parseFloat(s) ==
    LET body == Unsigned(s)
        ip == DigitsPrefix(body)
        rest == SubSeq(body, Len(ip) + 1, Len(body))
        fp == IF rest # <<>> /\ Head(rest) = "." THEN DigitsPrefix(Tail(rest)) ELSE <<>>
        mag == DigitsValue(ip, 0) * PriceScale + FracValue(fp, PriceDigits, 0)
    IN  IF ip = <<>> /\ fp = <<>> THEN NaN
        ELSE Num(IF Negative(s) THEN 0 - mag ELSE mag)

RECURSIVE NatToText(_)
NatToText(n) ==
    IF n < 10 THEN <<DigitChars[n + 1]>>
    ELSE NatToText(n \div 10) \o <<DigitChars[(n % 10) + 1]>>

\* the fraction digits of f/10^n without trailing zeros
RECURSIVE FracToText(_, _)
FracToText(f, n) ==
    IF f = 0 THEN <<>>
    ELSE <<DigitChars[(f \div Pow10(n - 1)) + 1]>> \o FracToText(f % Pow10(n - 1), n - 1)

\* String(number) of a non-negative price, as assigned to input.value
NumberToString(v) ==
    LET f == FracToText(v % PriceScale, PriceDigits)
    IN  NatToText(v \div PriceScale) \o (IF f = <<>> THEN <<>> ELSE <<".">> \o f)

\* ---------------------------------------------------------------- cryptoData
\* currentPrice in 1/PriceScale, accuracy in tenths of a percent
cryptoData ==
    [BTC   |-> [symbol |-> "BTC",   currentPrice |-> 432507500, hourlyAccuracy |-> 892, dailyAccuracy |-> 756],
     ETH   |-> [symbol |-> "ETH",   currentPrice |-> 26502500,  hourlyAccuracy |-> 885, dailyAccuracy |-> 742],
     ADA   |-> [symbol |-> "ADA",   currentPrice |-> 4850,      hourlyAccuracy |-> 876, dailyAccuracy |-> 721],
     BNB   |-> [symbol |-> "BNB",   currentPrice |-> 3158000,   hourlyAccuracy |-> 881, dailyAccuracy |-> 738],
     DOGE  |-> [symbol |-> "DOGE",  currentPrice |-> 825,       hourlyAccuracy |-> 863, dailyAccuracy |-> 695],
     SOL   |-> [symbol |-> "SOL",   currentPrice |-> 984500,    hourlyAccuracy |-> 889, dailyAccuracy |-> 751],
     MATIC |-> [symbol |-> "MATIC", currentPrice |-> 8750,      hourlyAccuracy |-> 872, dailyAccuracy |-> 718]]

\* the cryptocurrencies the README lists as supported
SupportedCryptocurrencies == {"BTC", "ETH", "ADA", "BNB", "XRP", "SOL", "DOGE", "LTC", "MATIC"}

HasData(crypto) == crypto \in DOMAIN cryptoData

\* ------------------------------------------------- simulateAdvancedPrediction
\* A predicted price: base/PriceScale * num/FactorDen.
FactorDen == 200 * RandDen * RandDen
ConfDen == 10 * RandDen
PV(base, num) == [base |-> base, num |-> num]
Positive(p) == (p.base > 0 /\ p.num > 0) \/ (p.base < 0 /\ p.num < 0)
\* Math.max(0, p)
Max0(p) == IF Positive(p) THEN p ELSE PV(p.base, 0)

\* the values Math.random() takes in the model: the least, the middle, the greatest
Draws == {0, RandDen \div 2, RandDen - 1}
\* the four draws of one sub-prediction, in call order:
\* volatility, trend, noise, confidence
DrawVecs == {<<v, t, n, c>> : v \in Draws, t \in Draws, n \in Draws, c \in Draws}

\* dailyFactor with the trend drawn from -100% .. +100%
dailyFactor_WideTrend(r) ==
    5 * (40 * RandDen * RandDen
         + 40 * RandDen * (2 * r[2] - RandDen)
         + (2 * r[3] - RandDen) * (2 * r[1] + RandDen))

\* basePrice * (1 + trend + (random - 0.5) * volatility) with
\* volatility = random * 0.1 + 0.05 and trend = (random - 0.5) * 0.2;
\* the factor's numerator over 40 * RandDen^2, scaled to FactorDen
dailyFactor(r) ==
    5 * (40 * RandDen * RandDen
         + 4 * RandDen * (2 * r[2] - RandDen)
         + (2 * r[3] - RandDen) * (2 * r[1] + RandDen))

\* hourlyFactor with the trend drawn from -10% .. +10%
hourlyFactor_WideTrend(r) ==
    200 * RandDen * RandDen
    + 20 * RandDen * (2 * r[2] - RandDen)
    + (2 * r[3] - RandDen) * (5 * r[1] + RandDen)

\* volatility = random * 0.05 + 0.01 and trend = (random - 0.5) * 0.1;
\* the factor's numerator over FactorDen
hourlyFactor(r) ==
    200 * RandDen * RandDen
    + 10 * RandDen * (2 * r[2] - RandDen)
    + (2 * r[3] - RandDen) * (5 * r[1] + RandDen)

\* dailyConfidence as random * 0.3 + 0.8
dailyConfidence_High(r) == 3 * r[4] + 8 * RandDen

\* random * 0.3 + 0.7 and random * 0.2 + 0.8, over ConfDen
dailyConfidence(r) == 3 * r[4] + 7 * RandDen
hourlyConfidence(r) == 2 * r[4] + 8 * RandDen

\* daily_prediction carrying the hourly model's accuracy
daily_prediction_HourlyAccuracy(data, basePrice, days, r) ==
    [predicted_price |-> Max0(PV(basePrice, dailyFactor(r))),
     days_ahead |-> days,
     confidence |-> dailyConfidence(r),
     model_accuracy |-> data.hourlyAccuracy]

daily_prediction(data, basePrice, days, r) ==
    [predicted_price |-> Max0(PV(basePrice, dailyFactor(r))),
     days_ahead |-> days,
     confidence |-> dailyConfidence(r),
     model_accuracy |-> data.dailyAccuracy]

hourly_prediction(data, basePrice, hours, r) ==
    [predicted_price |-> Max0(PV(basePrice, hourlyFactor(r))),
     hours_ahead |-> hours,
     confidence |-> hourlyConfidence(r),
     model_accuracy |-> data.hourlyAccuracy]

\* simulateAdvancedPrediction testing "hours >= 0"
simulateAdvancedPrediction_HoursGe(crypto, days, hours, price, rd, rh) ==
    IF ~HasData(crypto)
    THEN [thrown |-> TRUE, symbol |-> crypto, current_price |-> 0,
          daily_prediction |-> <<>>, hourly_prediction |-> <<>>]
    ELSE LET data == cryptoData[crypto]
             basePrice == Or(price, Num(data.currentPrice)).v
         IN  [thrown |-> FALSE, symbol |-> crypto, current_price |-> basePrice,
              daily_prediction |->
                  IF days > 0 THEN <<daily_prediction(data, basePrice, days, rd)>> ELSE <<>>,
              hourly_prediction |->
                  IF hours >= 0 THEN <<hourly_prediction(data, basePrice, hours, rh)>> ELSE <<>>]

\* simulateAdvancedPrediction always predicting from the stored price
simulateAdvancedPrediction_StoredBasis(crypto, days, hours, price, rd, rh) ==
    IF ~HasData(crypto)
    THEN [thrown |-> TRUE, symbol |-> crypto, current_price |-> 0,
          daily_prediction |-> <<>>, hourly_prediction |-> <<>>]
    ELSE LET data == cryptoData[crypto]
             basePrice == data.currentPrice
         IN  [thrown |-> FALSE, symbol |-> crypto, current_price |-> basePrice,
              daily_prediction |->
                  IF days > 0 THEN <<daily_prediction(data, basePrice, days, rd)>> ELSE <<>>,
              hourly_prediction |->
                  IF hours > 0 THEN <<hourly_prediction(data, basePrice, hours, rh)>> ELSE <<>>]

\* The value simulateAdvancedPrediction resolves to after its 800 ms wait, or
\* the error it throws.  An optional property is a sequence of length 0 or 1.
simulateAdvancedPrediction(crypto, days, hours, price, rd, rh) ==
    IF ~HasData(crypto)
    THEN [thrown |-> TRUE, symbol |-> crypto, current_price |-> 0,
          daily_prediction |-> <<>>, hourly_prediction |-> <<>>]
    ELSE LET data == cryptoData[crypto]
             basePrice == Or(price, Num(data.currentPrice)).v
         IN  [thrown |-> FALSE, symbol |-> crypto, current_price |-> basePrice,
              daily_prediction |->
                  IF days > 0 THEN <<daily_prediction(data, basePrice, days, rd)>> ELSE <<>>,
              hourly_prediction |->
                  IF hours > 0 THEN <<hourly_prediction(data, basePrice, hours, rh)>> ELSE <<>>]

\* ---------------------------------------------------------------- the page
\* what the user can type into the inputs, and the options of the select
DaysTexts == {<<"0">>, <<"1">>, <<"-", "1">>, <<"3", "1">>}
HoursTexts == {<<>>, <<"0">>, <<"2">>, <<"2", "4">>}
PriceTexts == {<<>>, <<"0">>, <<"-", "5">>, <<"5", "0", "0", "0", "0">>}
SelectOptions == {"BTC", "ETH", "XRP"}

\* button labels (innerHTML)
GenerateLabel == "Generate Prediction"
SelectLabel == "Select days or hours ahead"
SpinnerLabel(c) == IF c = "script" THEN "Generating Magic..." ELSE "Generating..."

VARIABLES
    client,             \* "script" (script.js) or "api" (part_000)
    cryptoSelect,       \* value of #crypto-select
    daysAheadInput,     \* text of #days-ahead
    hoursAheadInput,    \* text of #hours-ahead
    currentPriceInput,  \* text of #current-price
    predictBtn,         \* #predict-btn: [disabled, innerHTML]
    currentDisplay,     \* #current-symbol, #current-price-display
    dailyCard,          \* #daily-prediction-card and its price, symbol, days
    hourlyCard,         \* #hourly-prediction-card and its price, symbol, hours
    forecast,           \* #forecast-low, #forecast-high
    inv,                \* the generatePrediction invocations, in call order
    timers,             \* pending setTimeout callbacks of updatePredictionResults
    nEdits,             \* user edits so far
    sim                 \* a direct call of simulateAdvancedPrediction and its outcome

vars == <<client, cryptoSelect, daysAheadInput, hoursAheadInput, currentPriceInput,
          predictBtn, currentDisplay, dailyCard, hourlyCard, forecast, inv, timers,
          nEdits, sim>>

page == <<client, cryptoSelect, daysAheadInput, hoursAheadInput, currentPriceInput,
          predictBtn, currentDisplay, dailyCard, hourlyCard, forecast, inv, timers,
          nEdits>>

NoSim == [state |-> "off"]

\* updateCurrentPrice: what it writes, given the select's value and the
\* elements it may overwrite
updateCurrentPrice(crypto, input, display, daily, hourly) ==
    IF ~HasData(crypto)
    THEN [input |-> input, display |-> display, daily |-> daily, hourly |-> hourly]
    ELSE LET data == cryptoData[crypto]
         IN  [input |-> NumberToString(data.currentPrice),
              display |-> [symbol |-> data.symbol, price |-> <<data.currentPrice>>],
              daily |-> [daily EXCEPT !.symbol = data.symbol],
              hourly |-> [hourly EXCEPT !.symbol = data.symbol]]

\* validateInputs: the button it leaves, given the two horizon texts
validateInputs(daysText, hoursText) ==
    LET daysAhead == Or(parseInt(daysText), Num(0)).v
        hoursAhead == Or(parseInt(hoursText), Num(0)).v
    IN  IF daysAhead = 0 /\ hoursAhead = 0
        THEN [disabled |-> TRUE, innerHTML |-> SelectLabel]
        ELSE [disabled |-> FALSE, innerHTML |-> GenerateLabel]

\* the page as the HTML gives it, before initializePredictionsPage runs
HiddenCard == [display |-> "none", price |-> <<>>, symbol |-> "", ahead |-> <<>>]
BlankDisplay == [symbol |-> "", price |-> <<>>]

InitPage(c, crypto) ==
    LET u == updateCurrentPrice(crypto, <<>>, BlankDisplay, HiddenCard, HiddenCard)
    IN  /\ client = c
        /\ cryptoSelect = crypto
        /\ daysAheadInput = <<"1">>
        /\ hoursAheadInput = <<"0">>
        /\ currentPriceInput = u.input
        /\ predictBtn = [disabled |-> FALSE, innerHTML |-> GenerateLabel]
        /\ currentDisplay = u.display
        /\ dailyCard = u.daily
        /\ hourlyCard = u.hourly
        /\ forecast = [low |-> <<>>, high |-> <<>>]
        /\ inv = <<>>
        /\ timers = <<>>
        /\ nEdits = 0

Init ==
    /\ \E c \in {"script", "api"}, crypto \in SelectOptions : InitPage(c, crypto)
    /\ sim = NoSim

\* ------------------------------------------------------------- user events
\* "change" on #crypto-select: the listener runs updateCurrentPrice
SelectChange(crypto) ==
    LET u == updateCurrentPrice(crypto, currentPriceInput, currentDisplay, dailyCard, hourlyCard)
    IN  /\ nEdits < MaxEdits
        /\ crypto # cryptoSelect
        /\ cryptoSelect' = crypto
        /\ currentPriceInput' = u.input
        /\ currentDisplay' = u.display
        /\ dailyCard' = u.daily
        /\ hourlyCard' = u.hourly
        /\ nEdits' = nEdits + 1
        /\ UNCHANGED <<client, daysAheadInput, hoursAheadInput, predictBtn, forecast,
                       inv, timers, sim>>

\* "input" on #days-ahead: the listener runs validateInputs
InputDays(text) ==
    /\ nEdits < MaxEdits
    /\ text # daysAheadInput
    /\ daysAheadInput' = text
    /\ predictBtn' = validateInputs(text, hoursAheadInput)
    /\ nEdits' = nEdits + 1
    /\ UNCHANGED <<client, cryptoSelect, hoursAheadInput, currentPriceInput,
                   currentDisplay, dailyCard, hourlyCard, forecast, inv, timers, sim>>

\* "input" on #hours-ahead: the listener runs validateInputs
InputHours(text) ==
    /\ nEdits < MaxEdits
    /\ text # hoursAheadInput
    /\ hoursAheadInput' = text
    /\ predictBtn' = validateInputs(daysAheadInput, text)
    /\ nEdits' = nEdits + 1
    /\ UNCHANGED <<client, cryptoSelect, daysAheadInput, currentPriceInput,
                   currentDisplay, dailyCard, hourlyCard, forecast, inv, timers, sim>>

\* typing into #current-price, which has no listener
InputPrice(text) ==
    /\ nEdits < MaxEdits
    /\ text # currentPriceInput
    /\ currentPriceInput' = text
    /\ nEdits' = nEdits + 1
    /\ UNCHANGED <<client, cryptoSelect, daysAheadInput, hoursAheadInput, predictBtn,
                   currentDisplay, dailyCard, hourlyCard, forecast, inv, timers, sim>>

\* ------------------------------------------------------- generatePrediction
\* The frame of one invocation: the values read from the page, where the
\* async function stands (pc), what it showed the user (notes) and whether
\* it performed its prediction call (called).
Frame(crypto, days, hours, price) ==
    [selectedCrypto |-> crypto, daysAhead |-> days, hoursAhead |-> hours,
     currentPrice |-> price, originalText |-> "", pc |-> "start", notes |-> <<>>,
     called |-> FALSE, seen |-> 0, request |-> <<>>, result |-> <<>>]

\* the values generatePrediction reads from the page
ReadFrame ==
    Frame(cryptoSelect,
          Or(parseInt(daysAheadInput), Num(0)).v,
          Or(parseInt(hoursAheadInput), Num(0)).v,
          IF currentPriceInput # <<>> THEN parseFloat(currentPriceInput) ELSE Null)

\* Validation with the zero test written as "< 0"
Validation_Less(f) ==
    IF f.daysAhead < 0 /\ f.hoursAhead < 0 THEN "timeframe"
    ELSE IF Truthy(f.currentPrice) /\ f.currentPrice.v <= 0 THEN "price"
    ELSE ""

\* Validation without the price test
Validation_NoPrice(f) ==
    IF f.daysAhead = 0 /\ f.hoursAhead = 0 THEN "timeframe" ELSE ""

\* the validation of both clients: the message it shows, or "" when it passes
Validation(f) ==
    IF f.daysAhead = 0 /\ f.hoursAhead = 0 THEN "timeframe"
    ELSE IF Truthy(f.currentPrice) /\ f.currentPrice.v <= 0 THEN "price"
    ELSE ""

\* completions of simulateAdvancedPrediction so far
Completed == Cardinality({i \in 1..Len(inv) : inv[i].pc = "done"})

\* generatePrediction starting its prediction call before it validates
generatePrediction_CallFirst ==
    /\ client = "script"
    /\ ~predictBtn.disabled
    /\ Len(inv) < MaxInv
    /\ LET f == ReadFrame
           msg == Validation(f)
       IN  IF msg # ""
           THEN /\ inv' = Append(inv, [f EXCEPT !.pc = "rejected", !.notes = <<msg>>,
                                                 !.called = TRUE])
                /\ UNCHANGED predictBtn
           ELSE /\ inv' = Append(inv, [f EXCEPT !.originalText = predictBtn.innerHTML,
                                                 !.pc = "awaiting", !.called = TRUE,
                                                 !.seen = Completed])
                /\ predictBtn' = [disabled |-> TRUE, innerHTML |-> SpinnerLabel("script")]
    /\ UNCHANGED <<client, cryptoSelect, daysAheadInput, hoursAheadInput,
                   currentPriceInput, currentDisplay, dailyCard, hourlyCard, forecast,
                   timers, nEdits, sim>>

\* script.js: a click on the enabled button (or Ctrl+P, which clicks it only
\* when it is enabled) runs generatePrediction up to its first await, the
\* 800 ms timer inside simulateAdvancedPrediction
generatePrediction ==
    /\ client = "script"
    /\ ~predictBtn.disabled
    /\ Len(inv) < MaxInv
    /\ LET f == ReadFrame
           msg == Validation(f)
       IN  IF msg # ""
           THEN /\ inv' = Append(inv, [f EXCEPT !.pc = "rejected", !.notes = <<msg>>])
                /\ UNCHANGED predictBtn
           ELSE /\ inv' = Append(inv, [f EXCEPT !.originalText = predictBtn.innerHTML,
                                                 !.pc = "awaiting", !.called = TRUE,
                                                 !.seen = Completed])
                /\ predictBtn' = [disabled |-> TRUE, innerHTML |-> SpinnerLabel("script")]
    /\ UNCHANGED <<client, cryptoSelect, daysAheadInput, hoursAheadInput,
                   currentPriceInput, currentDisplay, dailyCard, hourlyCard, forecast,
                   timers, nEdits, sim>>

\* ---------------------------------------------------- updatePredictionResults
\* a forecast bound: the price times pct/100, kept over FactorDen * 100
Scaled(p, pct) == PV(p.base, p.num * pct)
\* base * num of a non-negative price, wider than a machine integer: three
\* digits in radix PriceScale, the most significant first
Product(p) ==
    LET bh == p.base \div PriceScale
        bl == p.base % PriceScale
        nh == p.num \div PriceScale
        nl == p.num % PriceScale
        lo == bl * nl
        mid == bh * nl + bl * nh + (lo \div PriceScale)
        hi == bh * nh + (mid \div PriceScale)
    IN  <<hi, mid % PriceScale, lo % PriceScale>>
LexLess(x, y) ==
    \/ x[1] < y[1]
    \/ x[1] = y[1] /\ (x[2] < y[2] \/ (x[2] = y[2] /\ x[3] < y[3]))
\* a < b for two prices over the same denominator
Less(a, b) ==
    IF a.base = b.base
    THEN IF a.base > 0 THEN a.num < b.num ELSE a.base < 0 /\ a.num > b.num
    ELSE IF a.num = b.num
    THEN IF a.num > 0 THEN a.base < b.base ELSE a.num < 0 /\ a.base > b.base
    ELSE IF a.base >= 0 /\ a.num >= 0 /\ b.base >= 0 /\ b.num >= 0
    THEN LexLess(Product(a), Product(b))
    ELSE a.base * a.num < b.base * b.num
\* Math.min and Math.max, where <<>> is the infinity the loop starts from
MathMin(acc, p) == IF acc = <<>> \/ Less(p, acc[1]) THEN <<p>> ELSE acc
MathMax(acc, p) == IF acc = <<>> \/ Less(acc[1], p) THEN <<p>> ELSE acc

DailyBand == 15
HourlyBand == 8

\* updateForecastRange taking the low bound from price * (1 + volatility)
updateForecastRange_LowAbove(data) ==
    LET d == data.daily_prediction
        h == data.hourly_prediction
        min1 == IF d # <<>> THEN MathMin(<<>>, Scaled(d[1].predicted_price, 100 + DailyBand)) ELSE <<>>
        max1 == IF d # <<>> THEN MathMax(<<>>, Scaled(d[1].predicted_price, 100 + DailyBand)) ELSE <<>>
        minPrice == IF h # <<>> THEN MathMin(min1, Scaled(h[1].predicted_price, 100 + HourlyBand)) ELSE min1
        maxPrice == IF h # <<>> THEN MathMax(max1, Scaled(h[1].predicted_price, 100 + HourlyBand)) ELSE max1
    IN  IF minPrice # <<>> /\ maxPrice # <<>>
        THEN <<[el |-> "forecast", delay |-> 300, low |-> minPrice, high |-> maxPrice]>>
        ELSE <<>>

\* updateForecastRange of script.js: the range it schedules, <<>> when the
\* result has no sub-prediction
updateForecastRange(data) ==
    LET d == data.daily_prediction
        h == data.hourly_prediction
        min1 == IF d # <<>> THEN MathMin(<<>>, Scaled(d[1].predicted_price, 100 - DailyBand)) ELSE <<>>
        max1 == IF d # <<>> THEN MathMax(<<>>, Scaled(d[1].predicted_price, 100 + DailyBand)) ELSE <<>>
        minPrice == IF h # <<>> THEN MathMin(min1, Scaled(h[1].predicted_price, 100 - HourlyBand)) ELSE min1
        maxPrice == IF h # <<>> THEN MathMax(max1, Scaled(h[1].predicted_price, 100 + HourlyBand)) ELSE max1
    IN  IF minPrice # <<>> /\ maxPrice # <<>>
        THEN <<[el |-> "forecast", delay |-> 300, low |-> minPrice, high |-> maxPrice]>>
        ELSE <<>>

\* the setTimeout callbacks updatePredictionResults schedules, in call order
ScheduledTimers(data, c) ==
    LET mk(t) == [el |-> t.el, delay |-> t.delay, low |-> t.low, high |-> t.high, c |-> c]
        d == IF data.daily_prediction # <<>>
             THEN <<[el |-> "dailyPrice", delay |-> 200,
                     low |-> <<data.daily_prediction[1].predicted_price>>, high |-> <<>>]>>
             ELSE <<>>
        h == IF data.hourly_prediction # <<>>
             THEN <<[el |-> "hourlyPrice", delay |-> 400,
                     low |-> <<data.hourly_prediction[1].predicted_price>>, high |-> <<>>]>>
             ELSE <<>>
        all == d \o h \o updateForecastRange(data)
    IN  [i \in 1..Len(all) |-> mk(all[i])]

\* the card as updatePredictionResults leaves it at once: shown, with the
\* symbol and the horizon of the result; the price follows in a timer
ShowCard(card, sub, symbol, ahead) ==
    IF sub = <<>> THEN card
    ELSE [card EXCEPT !.display = "block", !.symbol = symbol, !.ahead = <<ahead>>]

\* generatePredictionResume restoring the button after the await inside the
\* try block instead of in a finally block
generatePredictionResume_NoFinally(i, rd, rh) ==
    /\ client = "script"
    /\ i \in 1..Len(inv)
    /\ inv[i].pc = "awaiting"
    /\ \A j \in 1..(i - 1) : inv[j].pc # "awaiting"
    /\ \A k \in 1..Len(timers) : timers[k].c > inv[i].seen
    /\ LET f == inv[i]
           data == simulateAdvancedPrediction(f.selectedCrypto, f.daysAhead, f.hoursAhead,
                                              f.currentPrice, rd, rh)
       IN  IF data.thrown
           THEN /\ inv' = [inv EXCEPT ![i].pc = "done", ![i].notes = Append(@, "failed")]
                /\ UNCHANGED <<dailyCard, hourlyCard, timers, predictBtn>>
           ELSE /\ inv' = [inv EXCEPT ![i].pc = "done", ![i].notes = Append(@, "success"),
                                      ![i].result = <<data>>]
                /\ dailyCard' = ShowCard(dailyCard, data.daily_prediction, data.symbol,
                                         f.daysAhead)
                /\ hourlyCard' = ShowCard(hourlyCard, data.hourly_prediction, data.symbol,
                                          f.hoursAhead)
                /\ timers' = timers \o ScheduledTimers(data, Completed + 1)
                /\ predictBtn' = [disabled |-> FALSE, innerHTML |-> inv[i].originalText]
    /\ UNCHANGED <<client, cryptoSelect, daysAheadInput, hoursAheadInput,
                   currentPriceInput, currentDisplay, forecast, nEdits, sim>>

\* script.js: the 800 ms timer of the oldest waiting invocation fires;
\* simulateAdvancedPrediction computes and calls updatePredictionResults, then
\* generatePrediction shows its message and its finally block restores the button.
\* No earlier animation timer can still be pending if it was scheduled before
\* this invocation began (it was due within 400 ms).
generatePredictionResume(i, rd, rh) ==
    /\ client = "script"
    /\ i \in 1..Len(inv)
    /\ inv[i].pc = "awaiting"
    /\ \A j \in 1..(i - 1) : inv[j].pc # "awaiting"
    /\ \A k \in 1..Len(timers) : timers[k].c > inv[i].seen
    /\ LET f == inv[i]
           data == simulateAdvancedPrediction(f.selectedCrypto, f.daysAhead, f.hoursAhead,
                                              f.currentPrice, rd, rh)
       IN  IF data.thrown
           THEN /\ inv' = [inv EXCEPT ![i].pc = "done", ![i].notes = Append(@, "failed")]
                /\ UNCHANGED <<dailyCard, hourlyCard, timers>>
           ELSE /\ inv' = [inv EXCEPT ![i].pc = "done", ![i].notes = Append(@, "success"),
                                      ![i].result = <<data>>]
                /\ dailyCard' = ShowCard(dailyCard, data.daily_prediction, data.symbol,
                                         f.daysAhead)
                /\ hourlyCard' = ShowCard(hourlyCard, data.hourly_prediction, data.symbol,
                                          f.hoursAhead)
                /\ timers' = timers \o ScheduledTimers(data, Completed + 1)
    /\ predictBtn' = [disabled |-> FALSE, innerHTML |-> inv[i].originalText]
    /\ UNCHANGED <<client, cryptoSelect, daysAheadInput, hoursAheadInput,
                   currentPriceInput, currentDisplay, forecast, nEdits, sim>>

\* timer k is due before timer j: scheduled no later with no longer a delay,
\* or scheduled in the same call with a shorter delay
DueBefore(k, j) ==
    \/ k < j /\ timers[k].delay <= timers[j].delay
    \/ k > j /\ timers[k].c = timers[j].c /\ timers[k].delay < timers[j].delay

\* a setTimeout callback of updatePredictionResults or updateForecastRange runs
TimerFires(j) ==
    /\ j \in 1..Len(timers)
    /\ \A k \in 1..Len(timers) : k # j => ~DueBefore(k, j)
    /\ LET t == timers[j]
       IN  /\ dailyCard' = IF t.el = "dailyPrice" THEN [dailyCard EXCEPT !.price = t.low]
                           ELSE dailyCard
           /\ hourlyCard' = IF t.el = "hourlyPrice" THEN [hourlyCard EXCEPT !.price = t.low]
                            ELSE hourlyCard
           /\ forecast' = IF t.el = "forecast" THEN [low |-> t.low, high |-> t.high]
                          ELSE forecast
    /\ timers' = [k \in 1..(Len(timers) - 1) |-> IF k < j THEN timers[k] ELSE timers[k + 1]]
    /\ UNCHANGED <<client, cryptoSelect, daysAheadInput, hoursAheadInput,
                   currentPriceInput, predictBtn, currentDisplay, inv, nEdits, sim>>

\* ------------------------------------------------------------------ part_000
\* selectedCrypto.toLowerCase(), the model name in the request path
toLowerCase ==
    [BTC |-> "btc", ETH |-> "eth", ADA |-> "ada", BNB |-> "bnb", XRP |-> "xrp",
     SOL |-> "sol", DOGE |-> "doge", LTC |-> "ltc", MATIC |-> "matic"]

\* the POST generatePrediction sends: the path and the JSON body, in which
\* current_price is present only when the parsed price is truthy
requestBody(f) ==
    [url |-> <<"/api/predict/", toLowerCase[f.selectedCrypto]>>,
     symbol |-> f.selectedCrypto,
     days_ahead |-> f.daysAhead,
     hours_ahead |-> f.hoursAhead,
     current_price |-> IF Truthy(f.currentPrice) THEN <<f.currentPrice.v>> ELSE <<>>]

\* part_000: the click handler up to its first await, the fetch
generatePrediction_api ==
    /\ client = "api"
    /\ ~predictBtn.disabled
    /\ Len(inv) < MaxInv
    /\ LET f == ReadFrame
           msg == Validation(f)
       IN  IF msg # ""
           THEN /\ inv' = Append(inv, [f EXCEPT !.pc = "rejected", !.notes = <<msg>>])
                /\ UNCHANGED predictBtn
           ELSE /\ inv' = Append(inv, [f EXCEPT !.originalText = predictBtn.innerHTML,
                                                 !.pc = "fetching", !.called = TRUE,
                                                 !.request = <<requestBody(f)>>])
                /\ predictBtn' = [disabled |-> TRUE, innerHTML |-> SpinnerLabel("api")]
    /\ UNCHANGED <<client, cryptoSelect, daysAheadInput, hoursAheadInput,
                   currentPriceInput, currentDisplay, dailyCard, hourlyCard, forecast,
                   timers, nEdits, sim>>

\* The server behind /api/predict is not part of the sources; its answers
\* follow the documented response: the symbol of the request, a current
\* price, and each requested sub-prediction present or not.
ApiBand == 2
ApiLivePrice == 500000000
ApiDailyPrice == PV(36300, FactorDen)
ApiHourlyPrice == PV(10300, FactorDen)
predictResponses(body) ==
    {[thrown |-> FALSE, symbol |-> body.symbol,
      current_price |-> IF body.current_price # <<>> THEN body.current_price[1]
                        ELSE ApiLivePrice,
      daily_prediction |-> d, hourly_prediction |-> h] :
        d \in {<<>>} \cup (IF body.days_ahead > 0
                            THEN {<<[predicted_price |-> ApiDailyPrice,
                                     days_ahead |-> body.days_ahead]>>}
                            ELSE {}),
        h \in {<<>>} \cup (IF body.hours_ahead > 0
                            THEN {<<[predicted_price |-> ApiHourlyPrice,
                                     hours_ahead |-> body.hours_ahead]>>}
                            ELSE {})}

\* updateForecastRange of part_000: the range it writes at once
updateForecastRange_api(data, old) ==
    LET d == data.daily_prediction
        h == data.hourly_prediction
        min1 == IF d # <<>> THEN MathMin(<<>>, Scaled(d[1].predicted_price, 100 - ApiBand)) ELSE <<>>
        max1 == IF d # <<>> THEN MathMax(<<>>, Scaled(d[1].predicted_price, 100 + ApiBand)) ELSE <<>>
        minPrice == IF h # <<>> THEN MathMin(min1, Scaled(h[1].predicted_price, 100 - ApiBand)) ELSE min1
        maxPrice == IF h # <<>> THEN MathMax(max1, Scaled(h[1].predicted_price, 100 + ApiBand)) ELSE max1
    IN  IF minPrice # <<>> /\ maxPrice # <<>>
        THEN [low |-> minPrice, high |-> maxPrice]
        ELSE old

\* the card as part_000 leaves it: filled and shown, or hidden
SetCard_api(card, sub, symbol, ahead) ==
    IF sub = <<>> THEN [card EXCEPT !.display = "none"]
    ELSE [display |-> "block", price |-> <<sub[1].predicted_price>>, symbol |-> symbol,
          ahead |-> <<ahead>>]

\* fetchSettles showing the success alert before it tests resp.ok
fetchSettles_AlertFirst(i, outcome, data) ==
    /\ client = "api"
    /\ i \in 1..Len(inv)
    /\ inv[i].pc = "fetching"
    /\ IF outcome # "ok"
       THEN /\ inv' = [inv EXCEPT ![i].pc = "done",
                                  ![i].notes = @ \o (IF outcome = "http error"
                                                     THEN <<"success", "failed">>
                                                     ELSE <<"failed">>)]
            /\ UNCHANGED <<currentDisplay, dailyCard, hourlyCard, forecast>>
       ELSE /\ inv' = [inv EXCEPT ![i].pc = "done", ![i].notes = Append(@, "success"),
                                  ![i].result = <<data>>]
            /\ currentDisplay' = IF data.current_price # 0
                                 THEN [currentDisplay EXCEPT !.price = <<data.current_price>>]
                                 ELSE currentDisplay
            /\ dailyCard' = SetCard_api(dailyCard, data.daily_prediction, data.symbol,
                               IF data.daily_prediction # <<>>
                               THEN data.daily_prediction[1].days_ahead ELSE 0)
            /\ hourlyCard' = SetCard_api(hourlyCard, data.hourly_prediction, data.symbol,
                               IF data.hourly_prediction # <<>>
                               THEN data.hourly_prediction[1].hours_ahead ELSE 0)
            /\ forecast' = updateForecastRange_api(data, forecast)
    /\ predictBtn' = [disabled |-> FALSE, innerHTML |-> inv[i].originalText]
    /\ UNCHANGED <<client, cryptoSelect, daysAheadInput, hoursAheadInput,
                   currentPriceInput, timers, nEdits, sim>>

\* part_000: the fetch of invocation i settles.  It rejects (network error),
\* answers with a status that is not ok, or answers with data; the rest of
\* the try block, the catch and the finally block run.
fetchSettles(i, outcome, data) ==
    /\ client = "api"
    /\ i \in 1..Len(inv)
    /\ inv[i].pc = "fetching"
    /\ IF outcome # "ok"
       THEN /\ inv' = [inv EXCEPT ![i].pc = "done", ![i].notes = Append(@, "failed")]
            /\ UNCHANGED <<currentDisplay, dailyCard, hourlyCard, forecast>>
       ELSE /\ inv' = [inv EXCEPT ![i].pc = "done", ![i].notes = Append(@, "success"),
                                  ![i].result = <<data>>]
            /\ currentDisplay' = IF data.current_price # 0
                                 THEN [currentDisplay EXCEPT !.price = <<data.current_price>>]
                                 ELSE currentDisplay
            /\ dailyCard' = SetCard_api(dailyCard, data.daily_prediction, data.symbol,
                               IF data.daily_prediction # <<>>
                               THEN data.daily_prediction[1].days_ahead ELSE 0)
            /\ hourlyCard' = SetCard_api(hourlyCard, data.hourly_prediction, data.symbol,
                               IF data.hourly_prediction # <<>>
                               THEN data.hourly_prediction[1].hours_ahead ELSE 0)
            /\ forecast' = updateForecastRange_api(data, forecast)
    /\ predictBtn' = [disabled |-> FALSE, innerHTML |-> inv[i].originalText]
    /\ UNCHANGED <<client, cryptoSelect, daysAheadInput, hoursAheadInput,
                   currentPriceInput, timers, nEdits, sim>>

\* ------------------------------------------------------------ specification
Next ==
    \/ \E crypto \in SelectOptions : SelectChange(crypto)
    \/ \E text \in DaysTexts : InputDays(text)
    \/ \E text \in HoursTexts : InputHours(text)
    \/ \E text \in PriceTexts : InputPrice(text)
    \/ generatePrediction
    \/ \E i \in 1..MaxInv, k \in {0, RandDen - 1} :
           generatePredictionResume(i, <<k, k, k, k>>, <<k, k, k, k>>)
    \/ \E j \in 1..(3 * MaxInv) : TimerFires(j)
    \/ generatePrediction_api
    \/ \E i \in 1..MaxInv, outcome \in {"network error", "http error"} :
           fetchSettles(i, outcome, <<>>)
    \/ \E i \in 1..MaxInv :
           /\ i <= Len(inv)
           /\ inv[i].request # <<>>
           /\ \E data \in predictResponses(inv[i].request[1]) : fetchSettles(i, "ok", data)

Spec == Init /\ [][Next]_vars

\* The browser runs every pending timer callback and settles every fetch
\* (it answers, fails or times out): a completion that stays possible happens.
Fairness ==
    /\ WF_vars(\E j \in 1..(3 * MaxInv) : TimerFires(j))
    /\ WF_vars(\E i \in 1..MaxInv, k \in {0, RandDen - 1} :
                   generatePredictionResume(i, <<k, k, k, k>>, <<k, k, k, k>>))
    /\ WF_vars(\E i \in 1..MaxInv :
                   \/ \E outcome \in {"network error", "http error"} :
                          fetchSettles(i, outcome, <<>>)
                   \/ /\ i <= Len(inv)
                      /\ inv[i].request # <<>>
                      /\ \E data \in predictResponses(inv[i].request[1]) :
                             fetchSettles(i, "ok", data))

SpecLive == Spec /\ Fairness

\* ---------------------------------- simulateAdvancedPrediction on its own
\* the arguments generatePrediction can pass: not both horizons zero, the
\* price null, NaN, zero or positive
SimDays == {-1, 0, 1, 31}
SimHours == {0, 2}
SimPrices == {Null, NaN, Num(0), Num(500000000)}

InitSim ==
    /\ InitPage("script", "BTC")
    /\ \E crypto \in SupportedCryptocurrencies, days \in SimDays, hours \in SimHours,
          price \in SimPrices :
           /\ ~(days = 0 /\ hours = 0)
           /\ sim = [state |-> "called", crypto |-> crypto, days |-> days, hours |-> hours,
                     price |-> price, result |-> <<>>]

\* the call settles: it returns its predictions or throws
SimSettles(rd, rh) ==
    /\ sim.state = "called"
    /\ LET data == simulateAdvancedPrediction(sim.crypto, sim.days, sim.hours, sim.price,
                                              rd, rh)
       IN  sim' = [sim EXCEPT !.state = IF data.thrown THEN "thrown" ELSE "returned",
                              !.result = <<data>>]
    /\ UNCHANGED page

NextSim ==
    /\ sim.state = "called"
    /\ \E rd \in DrawVecs, rh \in DrawVecs : SimSettles(rd, rh)

SpecSim == InitSim /\ [][NextSim]_vars

\* ------------------------------------------------------------------- claims
Frames == 1..Len(inv)
Rejected(i) == inv[i].pc = "rejected"
NegativePrice(i) == inv[i].currentPrice.t = "num" /\ inv[i].currentPrice.v < 0
DAYS_AHEAD_MAX == 30
HOURS_AHEAD_MAX == 23

C2_NoPositiveHorizonRejected ==
    \A i \in Frames :
        ~(inv[i].daysAhead > 0 \/ inv[i].hoursAhead > 0)
            => /\ ~inv[i].called
               /\ \A n \in 1..Len(inv[i].notes) : inv[i].notes[n] # "success"

\* C3: an invocation that ended in a validation rejection has performed no
\* prediction call: no simulateAdvancedPrediction, no request, no result.
C3_RejectedMakesNoCall ==
    \A i \in Frames :
        Rejected(i) => ~inv[i].called /\ inv[i].request = <<>> /\ inv[i].result = <<>>

C3_Witness ==
    \E i \in Frames : Rejected(i) /\ i < Len(inv)

\* C4: an invocation with a horizon greater than 0 and the price field
\* parsing to 0 is rejected and produces no prediction.
C4_ZeroPriceRejected ==
    \A i \in Frames :
        (inv[i].currentPrice = Num(0) /\ (inv[i].daysAhead > 0 \/ inv[i].hoursAhead > 0))
            => Rejected(i) /\ ~inv[i].called

C6_SubPredictionsMatchHorizons ==
    sim.state = "returned" =>
        LET data == sim.result[1]
        IN  /\ Len(data.daily_prediction) = (IF sim.days > 0 THEN 1 ELSE 0)
            /\ Len(data.hourly_prediction) = (IF sim.hours > 0 THEN 1 ELSE 0)
            /\ data.daily_prediction # <<>> => data.daily_prediction[1].days_ahead = sim.days
            /\ data.hourly_prediction # <<>> => data.hourly_prediction[1].hours_ahead = sim.hours

C6_Witness ==
    /\ sim.state = "returned"
    /\ sim.days = 1
    /\ sim.hours = 0
    /\ sim.result[1].daily_prediction # <<>>
    /\ sim.result[1].hourly_prediction = <<>>

\* C7: an invocation with days-ahead above 30 or hours-ahead above 23 is
\* never turned into a prediction.
C7_HorizonsBounded ==
    \A i \in Frames :
        (inv[i].daysAhead > DAYS_AHEAD_MAX \/ inv[i].hoursAhead > HOURS_AHEAD_MAX)
            => ~inv[i].called /\ inv[i].result = <<>>

\* C8: with a positive basis price every returned sub-prediction has a
\* predicted price strictly greater than 0, for all draws.
C8_PredictedPricePositive ==
    (sim.state = "returned" /\ sim.result[1].current_price > 0) =>
        LET data == sim.result[1]
        IN  /\ \A n \in 1..Len(data.daily_prediction) :
                   Positive(data.daily_prediction[n].predicted_price)
            /\ \A n \in 1..Len(data.hourly_prediction) :
                   Positive(data.hourly_prediction[n].predicted_price)

\* both sub-predictions present, the daily one at the low end of its range
C8_Witness ==
    /\ sim.state = "returned"
    /\ sim.result[1].current_price > 0
    /\ sim.result[1].daily_prediction # <<>>
    /\ sim.result[1].hourly_prediction # <<>>
    /\ 10 * sim.result[1].daily_prediction[1].predicted_price.num < 9 * FactorDen

\* C9: the daily confidence lies in [0.70, 1.00] and the hourly confidence
\* in [0.80, 1.00], for all draws.
C9_ConfidenceInRange ==
    sim.state = "returned" =>
        LET data == sim.result[1]
        IN  /\ \A n \in 1..Len(data.daily_prediction) :
                   /\ 10 * data.daily_prediction[n].confidence >= 7 * ConfDen
                   /\ data.daily_prediction[n].confidence <= ConfDen
            /\ \A n \in 1..Len(data.hourly_prediction) :
                   /\ 10 * data.hourly_prediction[n].confidence >= 8 * ConfDen
                   /\ data.hourly_prediction[n].confidence <= ConfDen

\* a daily confidence above 0.95 next to an hourly confidence of 0.80
C9_Witness ==
    /\ sim.state = "returned"
    /\ sim.result[1].daily_prediction # <<>>
    /\ sim.result[1].hourly_prediction # <<>>
    /\ 100 * sim.result[1].daily_prediction[1].confidence > 95 * ConfDen
    /\ 10 * sim.result[1].hourly_prediction[1].confidence = 8 * ConfDen

\* C10: for every cryptocurrency listed as supported, a call with a valid
\* horizon and price returns a result rather than throwing.
C10_SupportedSymbolsPredict ==
    (sim.state # "called" /\ sim.crypto \in SupportedCryptocurrencies) => sim.state = "returned"

\* C11: an accepted invocation whose prediction call failed (the fetch
\* rejected, the response was not ok, or the symbol has no data) still ends
\* with a prediction and without a failure message.
C11_FailureFallsBack ==
    \A i \in Frames :
        inv[i].pc = "done" => inv[i].result # <<>> /\ inv[i].notes = <<"success">>

\* C12: the current_price of a returned result is the override when a
\* positive override was passed and the stored price of the symbol when none
\* was passed, and every predicted price is a factor times that current_price.
C12_BasisPrice ==
    sim.state = "returned" =>
        LET data == sim.result[1]
        IN  /\ (sim.price.t = "num" /\ sim.price.v > 0) => data.current_price = sim.price.v
            /\ sim.price = Null => data.current_price = cryptoData[sim.crypto].currentPrice
            /\ \A n \in 1..Len(data.daily_prediction) :
                   data.daily_prediction[n].predicted_price.base = data.current_price
            /\ \A n \in 1..Len(data.hourly_prediction) :
                   data.hourly_prediction[n].predicted_price.base = data.current_price

\* an override that differs from the stored price, with both sub-predictions
C12_Witness ==
    /\ sim.state = "returned"
    /\ sim.price = Num(500000000)
    /\ sim.result[1].current_price # cryptoData[sim.crypto].currentPrice
    /\ sim.result[1].daily_prediction # <<>>
    /\ sim.result[1].hourly_prediction # <<>>

\* C13: the model_accuracy of the daily sub-prediction is the stored daily
\* accuracy of the requested symbol and that of the hourly sub-prediction the
\* stored hourly accuracy, for all horizons, prices and draws.
C13_ModelAccuracyStored ==
    sim.state = "returned" =>
        LET data == sim.result[1]
        IN  /\ \A n \in 1..Len(data.daily_prediction) :
                   data.daily_prediction[n].model_accuracy = cryptoData[sim.crypto].dailyAccuracy
            /\ \A n \in 1..Len(data.hourly_prediction) :
                   data.hourly_prediction[n].model_accuracy = cryptoData[sim.crypto].hourlyAccuracy

\* both accuracies of ETH carried by one result with an overridden price
C13_Witness ==
    /\ sim.state = "returned"
    /\ sim.crypto = "ETH"
    /\ sim.price = Num(500000000)
    /\ sim.result[1].daily_prediction # <<>>
    /\ sim.result[1].hourly_prediction # <<>>
    /\ sim.result[1].daily_prediction[1].model_accuracy = 742
    /\ sim.result[1].hourly_prediction[1].model_accuracy = 885

\* C14: in the client that calls the server, every invocation that passed
\* validation has sent exactly one POST whose body carries the symbol and the
\* two horizons read from the page, and carries current_price exactly when
\* the price field was filled in.
C14_RequestBody ==
    \A i \in Frames :
        (client = "api" /\ inv[i].called) =>
            /\ Len(inv[i].request) = 1
            /\ inv[i].request[1].url = <<"/api/predict/", toLowerCase[inv[i].selectedCrypto]>>
            /\ inv[i].request[1].symbol = inv[i].selectedCrypto
            /\ inv[i].request[1].days_ahead = inv[i].daysAhead
            /\ inv[i].request[1].hours_ahead = inv[i].hoursAhead
            /\ (inv[i].request[1].current_price # <<>>) <=> (inv[i].currentPrice # Null)

\* C15: two completed invocations of script.js that passed the same symbol,
\* horizons and price to simulateAdvancedPrediction got the same result.
C15_RepeatedCallsAgree ==
    \A i, j \in Frames :
        (/\ client = "script"
         /\ inv[i].result # <<>>
         /\ inv[j].result # <<>>
         /\ inv[i].selectedCrypto = inv[j].selectedCrypto
         /\ inv[i].daysAhead = inv[j].daysAhead
         /\ inv[i].hoursAhead = inv[j].hoursAhead
         /\ inv[i].currentPrice = inv[j].currentPrice)
            => inv[i].result = inv[j].result

\* C16: with a positive basis price the daily predicted price lies within
\* basePrice * [0.825, 1.175] and the hourly one within basePrice * [0.92, 1.08],
\* for all draws of volatility, trend and noise.
C16_EstimateBounds ==
    (sim.state = "returned" /\ sim.result[1].current_price > 0) =>
        LET data == sim.result[1]
        IN  /\ \A n \in 1..Len(data.daily_prediction) :
                   LET p == data.daily_prediction[n].predicted_price
                   IN  /\ p.base = data.current_price
                       /\ 40 * p.num >= 33 * FactorDen
                       /\ 40 * p.num <= 47 * FactorDen
            /\ \A n \in 1..Len(data.hourly_prediction) :
                   LET p == data.hourly_prediction[n].predicted_price
                   IN  /\ p.base = data.current_price
                       /\ 25 * p.num >= 23 * FactorDen
                       /\ 25 * p.num <= 27 * FactorDen

\* a daily price below 0.83 of the basis next to an hourly price above 1.07 of it
C16_Witness ==
    /\ sim.state = "returned"
    /\ sim.result[1].current_price > 0
    /\ sim.result[1].daily_prediction # <<>>
    /\ sim.result[1].hourly_prediction # <<>>
    /\ 100 * sim.result[1].daily_prediction[1].predicted_price.num < 83 * FactorDen
    /\ 100 * sim.result[1].hourly_prediction[1].predicted_price.num > 107 * FactorDen

InFlight(i) == inv[i].pc \in {"awaiting", "fetching"}

\* C17: every invocation that passed validation eventually finishes; the
\* step that finishes it leaves the button enabled with the label the
\* invocation captured at click time, which is not the spinner label; and the
\* spinner label is shown only while an invocation is in flight.  This holds
\* when the call fails and when invocations overlap.
C17_LoadingEnds ==
    /\ \A i \in 1..MaxInv :
           (i \in Frames /\ InFlight(i)) ~> (i \in Frames /\ inv[i].pc = "done")
    /\ [][\A i \in Frames :
              (InFlight(i) /\ inv'[i].pc = "done") =>
                  /\ predictBtn' = [disabled |-> FALSE, innerHTML |-> inv[i].originalText]
                  /\ inv[i].originalText # SpinnerLabel(client)]_vars
    /\ []((\A i \in Frames : ~InFlight(i)) => predictBtn.innerHTML # SpinnerLabel(client))

\* two overlapping invocations of script.js, the first of which failed, both
\* finished, the button enabled with the label captured by the second
C17_Witness ==
    /\ client = "script"
    /\ Len(inv) = 2
    /\ inv[1].called /\ inv[2].called
    /\ inv[2].seen = 0
    /\ inv[1].pc = "done" /\ inv[2].pc = "done"
    /\ inv[1].notes = <<"failed">>
    /\ predictBtn = [disabled |-> FALSE, innerHTML |-> inv[2].originalText]

\* the band the client puts around a sub-prediction of the given kind
Band(c, kind) ==
    IF c = "api" THEN ApiBand ELSE IF kind = "daily" THEN DailyBand ELSE HourlyBand

\* the predicted prices of a result, each with its band
Predictions(data, c) ==
    {[price |-> data.daily_prediction[n].predicted_price, band |-> Band(c, "daily")] :
         n \in 1..Len(data.daily_prediction)}
    \cup {[price |-> data.hourly_prediction[n].predicted_price, band |-> Band(c, "hourly")] :
              n \in 1..Len(data.hourly_prediction)}

LessEq(a, b) == ~Less(b, a)

\* the range <<low>>..<<high>> lies around every predicted price of data, low
\* being the least price * (1 - band) and high the greatest price * (1 + band)
Brackets(low, high, data, c) ==
    LET ps == Predictions(data, c)
    IN  /\ ps # {}
        /\ Len(low) = 1 /\ Len(high) = 1
        /\ \A p \in ps :
               /\ LessEq(low[1], Scaled(p.price, 100))
               /\ LessEq(Scaled(p.price, 100), high[1])
               /\ LessEq(low[1], Scaled(p.price, 100 - p.band))
               /\ LessEq(Scaled(p.price, 100 + p.band), high[1])
        /\ \E p \in ps : low[1] = Scaled(p.price, 100 - p.band)
        /\ \E p \in ps : high[1] = Scaled(p.price, 100 + p.band)

\* the results the invocations have received so far
Results == {inv[i].result[1] : i \in {j \in Frames : inv[j].result # <<>>}}

\* C18: a forecast range, displayed or scheduled for display, lies around the
\* predicted prices of the result it was computed from, with low the least
\* price * (1 - band) and high the greatest price * (1 + band); a result
\* with a sub-prediction produces such a range, and a result without any
\* leaves the displayed range and the scheduled ones as they were.
C18_ForecastBrackets ==
    /\ [](/\ (forecast.low # <<>> \/ forecast.high # <<>>) =>
                 \E data \in Results : Brackets(forecast.low, forecast.high, data, client)
          /\ \A k \in 1..Len(timers) :
                 timers[k].el = "forecast" =>
                     \E data \in Results : Brackets(timers[k].low, timers[k].high, data, client))
    /\ [][\A i \in Frames :
              (inv[i].result = <<>> /\ inv'[i].result # <<>>) =>
                  LET data == inv'[i].result[1]
                  IN  IF Predictions(data, client) = {}
                      THEN forecast' = forecast /\ timers' = timers
                      ELSE IF client = "api"
                      THEN Brackets(forecast'.low, forecast'.high, data, client)
                      ELSE \E k \in 1..Len(timers') :
                               /\ k > Len(timers)
                               /\ timers'[k].el = "forecast"
                               /\ Brackets(timers'[k].low, timers'[k].high, data, client)]_vars

\* script.js displays a range whose low bound comes from the daily price and
\* whose high bound comes from the hourly price of one result
C18_Witness ==
    /\ client = "script"
    /\ forecast.low # <<>>
    /\ \E data \in Results :
           /\ data.daily_prediction # <<>>
           /\ data.hourly_prediction # <<>>
           /\ forecast.low[1] = Scaled(data.daily_prediction[1].predicted_price, 100 - DailyBand)
           /\ forecast.high[1] = Scaled(data.hourly_prediction[1].predicted_price, 100 + HourlyBand)
           /\ Brackets(forecast.low, forecast.high, data, client)

ValidationMessages == {<<"timeframe">>, <<"price">>}

\* C19: an invocation shows exactly one outcome message: a rejected one its
\* validation message, shown in the step that rejects it and without any
\* call; one in flight none yet; a finished one either the success message
\* or the failure message, and the success message only together with the
\* result of a call that did not throw.
C19_OneOutcome ==
    \A i \in Frames :
        /\ inv[i].pc \in {"rejected", "awaiting", "fetching", "done"}
        /\ Rejected(i) => inv[i].notes \in ValidationMessages /\ ~inv[i].called
        /\ InFlight(i) => inv[i].notes = <<>>
        /\ inv[i].pc = "done" => inv[i].notes \in {<<"success">>, <<"failed">>}
        /\ inv[i].notes = <<"success">> =>
               inv[i].called /\ inv[i].result # <<>> /\ ~inv[i].result[1].thrown
        /\ inv[i].notes = <<"failed">> => inv[i].called /\ inv[i].result = <<>>

\* a response that was not ok reported as a failure, then a success
C19_Witness ==
    /\ client = "api"
    /\ Len(inv) = 2
    /\ inv[1].notes = <<"failed">>
    /\ inv[2].notes = <<"success">>

\* C20: at most one invocation is in flight, and the button is disabled
\* while one is.
C20_OneInFlight ==
    /\ Cardinality({i \in Frames : InFlight(i)}) <= 1
    /\ (\E i \in Frames : InFlight(i)) => predictBtn.disabled

\* the horizons as validateInputs and generatePrediction read them now
daysNow == Or(parseInt(daysAheadInput), Num(0)).v
hoursNow == Or(parseInt(hoursAheadInput), Num(0)).v

\* C21: when a horizon field no longer holds what the page started with and
\* no invocation is in flight, an enabled button means that days-ahead and
\* hours-ahead do not both parse to 0.
C21_EnabledImpliesHorizon ==
    (/\ daysAheadInput # <<"1">> \/ hoursAheadInput # <<"0">>
     /\ \A i \in Frames : ~InFlight(i)
     /\ ~predictBtn.disabled)
        => ~(daysNow = 0 /\ hoursNow = 0)

\* script.js completes its invocations in call order: the latest result is
\* that of the last invocation that has one
LatestResult == inv[CHOOSE i \in Frames :
                        /\ inv[i].result # <<>>
                        /\ \A j \in Frames : inv[j].result # <<>> => j <= i].result[1]

\* C22: in script.js, once a prediction has succeeded, the daily card is
\* visible only if the latest result has a daily_prediction and the hourly
\* card only if it has an hourly_prediction.
C22_CardsMatchLatest ==
    (client = "script" /\ Results # {}) =>
        /\ dailyCard.display = "block" => LatestResult.daily_prediction # <<>>
        /\ hourlyCard.display = "block" => LatestResult.hourly_prediction # <<>>

\* C23: a visible card that displays a price displays one that some result
\* for the symbol on the card's label carries.
C23_LabelMatchesPrice ==
    /\ (dailyCard.display = "block" /\ dailyCard.price # <<>>) =>
           \E data \in Results :
               /\ data.symbol = dailyCard.symbol
               /\ data.daily_prediction # <<>>
               /\ dailyCard.price = <<data.daily_prediction[1].predicted_price>>
    /\ (hourlyCard.display = "block" /\ hourlyCard.price # <<>>) =>
           \E data \in Results :
               /\ data.symbol = hourlyCard.symbol
               /\ data.hourly_prediction # <<>>
               /\ hourlyCard.price = <<data.hourly_prediction[1].predicted_price>>

====
